---------------------------- MODULE Spec2Model ----------------------------
(***************************************************************************)
(* Model of telegram_bot.py: the session-gated command dispatcher.         *)
(*                                                                         *)
(* State: the process-wide set authenticated_users, the per-identity       *)
(* conversation state kept by login_handler, the per-identity user_data    *)
(* scratch dict, and the position of main().  Every inbound update is      *)
(* handled by one action; the handlers are operators translated from the   *)
(* methods of AuthenticatedBot.  The history variables last and before     *)
(* record the update handled last, what it produced and the state it was   *)
(* handled in, so that a property of a step reads as a state predicate.    *)
(*                                                                         *)
(* Environment assumptions: every identity talks to the bot in its own     *)
(* private chat (so the conversation key of login_handler is the           *)
(* identity), updates are processed one at a time, and sending a reply     *)
(* does not fail.  Deleting a message may fail (the code catches it).      *)
(*                                                                         *)
(* SpecLogout drops the one-at-a-time assumption for logout: it runs       *)
(* several logout handlers as tasks that interleave at the handler's       *)
(* await.                                                                  *)
(*                                                                         *)
(* A text is a sequence of chunks; the chunk " " is whitespace, any other  *)
(* chunk is a run of non-blank characters.  A reply is a sequence of       *)
(* words.                                                                  *)
(***************************************************************************)
EXTENDS Integers, Sequences, FiniteSets, TLC

\* Number of identities that send updates.
NumUsers == 2

Users == 1..NumUsers

\* Conversation states (line 28) and ConversationHandler.END.
USERNAME == 0
PASSWORD == 1
END == -1

\* The value of a missing user_data entry (dict.get default).  No text
\* strips to the empty sequence, since a message is never blank.
None == <<>>

WS == " "

\* The credential table, keyed and valued by texts without whitespace.
VALID_CREDENTIALS ==
    (<<"admin">> :> <<"admin123">>) @@
    (<<"user1">> :> <<"pass123">>) @@
    (<<"demo">> :> <<"demo123">>)

\* Plain-text (non-command) messages the identities may send: a stored
\* username, bare and padded, its secret, bare and padded, and the secret of
\* another username (which is also a username the table does not know).
Texts ==
    { <<"admin">>, <<WS, "admin", WS>>,
      <<"admin123">>, <<"admin123", WS>>, <<"pass123">> }

ProtectedCommands == {"info", "stats", "users", "data"}

Commands == {"start", "login", "cancel", "logout", "help"} \cup ProtectedCommands

\* str.strip(): drop leading and trailing whitespace.
RECURSIVE lstrip(_)
lstrip(t) == IF t # <<>> /\ Head(t) = WS THEN lstrip(Tail(t)) ELSE t

RECURSIVE rstrip(_)
rstrip(t) ==
    IF t # <<>> /\ t[Len(t)] = WS THEN rstrip(SubSeq(t, 1, Len(t) - 1)) ELSE t

strip(t) == rstrip(lstrip(t))

\* len(self.authenticated_users) rendered by str().
len_str(au) == ToString(Cardinality(au))

\* "\n".join([f"User ID: {uid}" for uid in au]), in ascending order of id.
RECURSIVE user_list(_)
user_list(au) ==
    IF au = {} THEN <<>>
    ELSE LET uid == CHOOSE x \in au : \A y \in au : x <= y
         IN  <<"User", "ID:", ToString(uid)>> \o user_list(au \ {uid})

----------------------------------------------------------------------------
\* Reply texts, word by word (emoji and bullets left out).

NoReply == <<>>

StartLoggedInMsg ==
    <<"You're", "already", "logged", "in!", "Available", "commands:",
      "/info", "/stats", "/users", "/data", "/logout">>

StartWelcomeMsg ==
    <<"Welcome", "to", "the", "Authenticated", "Bot!", "Please", "login",
      "to", "access", "commands.", "Use", "/login", "to", "authenticate.">>

AlreadyLoggedInMsg ==
    <<"You're", "already", "logged", "in!", "Use", "/logout", "to",
      "logout", "first.">>

EnterUsernameMsg ==
    <<"Login", "Required", "Please", "enter", "your", "username:",
      "(Send", "/cancel", "to", "abort)">>

EnterPasswordMsg(username) ==
    <<"Username:">> \o username \o <<"Now", "enter", "your", "password:">>

LoginSuccessMsg ==
    <<"Login", "successful!", "You", "now", "have", "access", "to", "all",
      "commands:", "Information", "Commands:", "/info", "/stats", "/users",
      "/data", "Other", "Commands:", "/help", "/logout">>

\* A rejection that tells which part was wrong.
WrongPasswordMsg ==
    <<"Wrong", "password!", "Please", "try", "again", "with", "/login">>

InvalidCredentialsMsg ==
    <<"Invalid", "credentials!", "Please", "try", "again", "with", "/login">>

LoginCancelledMsg == <<"Login", "cancelled.">>

LoggedOutMsg ==
    <<"Logged", "out", "successfully!", "Use", "/login", "to", "login",
      "again.">>

NotLoggedInMsg == <<"You're", "not", "logged", "in.">>

HelpMsg ==
    <<"Available", "Commands:", "Information", "Commands:", "/info",
      "/stats", "/users", "/data", "Other", "Commands:", "/help", "/logout">>

HelpLockedMsg ==
    <<"Authentication", "Required", "Please", "/login", "first", "to",
      "access", "commands.", "Available", "after", "login:", "System",
      "information", "Statistics", "User", "lists", "Data", "summaries">>

AuthRequiredMsg ==
    <<"Authentication", "Required", "Please", "/login", "first", "to",
      "access", "this", "command.">>

InfoMsg(au) ==
    <<"System", "Information", "Bot", "Status:", "Online", "Version:",
      "1.0.0", "Active", "Users:", len_str(au), "Database:", "Connected",
      "Last", "Update:", "2025-10-06">>

StatsMsg(au) ==
    <<"Statistics", "Total", "Requests:", "1,234", "Active", "Sessions:",
      len_str(au), "Success", "Rate:", "98.5%", "Avg", "Response", "Time:",
      "45ms", "Uptime:", "99.9%">>

UsersMsg(au) ==
    <<"Active", "Users", len_str(au)>> \o
    (IF user_list(au) # <<>> THEN user_list(au)
     ELSE <<"No", "active", "users">>)

DataMsg ==
    <<"Data", "Summary", "Records:", "5,678", "Storage", "Used:", "234",
      "MB", "Last", "Backup:", "2h", "ago", "Data", "Integrity:", "Good",
      "Sync", "Status:", "Synced">>

PleaseLoginMsg ==
    <<"Please", "/login", "first", "to", "use", "this", "bot.">>

----------------------------------------------------------------------------
\* State.

VARIABLES
    pc,                   \* position of main(): "main", "run_polling", "exit"
    token,                \* whether TELEGRAM_BOT_TOKEN is set
    authenticated_users,  \* the set of authenticated identities
    conversations,        \* login_handler's state per identity; END if none
    user_data,            \* context.user_data['username'] per identity
    last,                 \* the update handled last and what it produced
    before,               \* history: the state the last update was handled in
    handshake,            \* history: identities whose last password step
                          \*   verified, with no logout by them since
    tasks,                \* logout handlers running as concurrent tasks
    attempt               \* history: the text, stripped, an identity sent in
                          \*   the username step of its attempt that now
                          \*   awaits the password; None otherwise

vars ==
    <<pc, token, authenticated_users, conversations, user_data, last,
      before, handshake, tasks, attempt>>

\* An update: a command (text empty) or a plain text (command NoCommand).
NoCommand == ""

CommandUpdate(c) == [command |-> c, text |-> <<>>]

TextUpdate(t) == [command |-> NoCommand, text |-> t]

\* filters.TEXT & ~filters.COMMAND
IsPlainText(update) == update.command = NoCommand

\* The program state an update is handled in: the registry (au), the
\* conversation states (conv) and the scratch data (ud).  A handler reads and
\* changes au and ud; conv belongs to login_handler.
World ==
    [au |-> authenticated_users, conv |-> conversations, ud |-> user_data]

\* What a handler leaves behind: the registry, the scratch data, the reply
\* sent, the protected body that ran and the outcome of a requested delete.
Result(au, ud, reply, body, delete) ==
    [au |-> au, ud |-> ud, reply |-> reply, body |-> body, delete |-> delete]

\* The same with the conversation state a login handler returns.
Returning(r, ret) ==
    [au |-> r.au, ud |-> r.ud, reply |-> r.reply, body |-> r.body,
     delete |-> r.delete, ret |-> ret]

----------------------------------------------------------------------------
\* The handlers of AuthenticatedBot.

\* A /start that clears the identity's scratch data.
start_resets(w, user_id) ==
    IF user_id \in w.au
    THEN Result(w.au, [w.ud EXCEPT ![user_id] = None], StartLoggedInMsg,
                "none", "none")
    ELSE Result(w.au, [w.ud EXCEPT ![user_id] = None], StartWelcomeMsg,
                "none", "none")

start(w, user_id) ==
    IF user_id \in w.au
    THEN Result(w.au, w.ud, StartLoggedInMsg, "none", "none")
    ELSE Result(w.au, w.ud, StartWelcomeMsg, "none", "none")

\* A login start that does not look at the registry.
login_start_unchecked(w, user_id) ==
    Returning(Result(w.au, w.ud, EnterUsernameMsg, "none", "none"), USERNAME)

login_start(w, user_id) ==
    IF user_id \in w.au
    THEN Returning(Result(w.au, w.ud, AlreadyLoggedInMsg, "none", "none"), END)
    ELSE Returning(Result(w.au, w.ud, EnterUsernameMsg, "none", "none"),
                   USERNAME)

\* A username step that keeps the candidate in one slot shared by all.
receive_username_shared(w, user_id, text) ==
    LET username == strip(text)
    IN  Returning(Result(w.au, [x \in Users |-> username],
                         EnterPasswordMsg(username), "none", "none"),
                  PASSWORD)

\* A username step that does not store the text.
receive_username_forgets(w, user_id, text) ==
    LET username == strip(text)
    IN  Returning(Result(w.au, w.ud, EnterPasswordMsg(username), "none",
                         "none"), PASSWORD)

\* A username step that rejects a username the table does not know.
receive_username_validates(w, user_id, text) ==
    LET username == strip(text)
    IN  IF username \in DOMAIN VALID_CREDENTIALS
        THEN Returning(Result(w.au, [w.ud EXCEPT ![user_id] = username],
                              EnterPasswordMsg(username), "none", "none"),
                       PASSWORD)
        ELSE Returning(Result(w.au, w.ud, InvalidCredentialsMsg, "none",
                              "none"), END)

receive_username(w, user_id, text) ==
    LET username == strip(text)
    IN  Returning(Result(w.au, [w.ud EXCEPT ![user_id] = username],
                         EnterPasswordMsg(username), "none", "none"),
                  PASSWORD)

\* A check that accepts a known username with any stored secret.
verify_any_secret(username, password) ==
    /\ username \in DOMAIN VALID_CREDENTIALS
    /\ \E k \in DOMAIN VALID_CREDENTIALS : VALID_CREDENTIALS[k] = password

\* username in VALID_CREDENTIALS and VALID_CREDENTIALS[username] == password
verify(username, password) ==
    /\ username \in DOMAIN VALID_CREDENTIALS
    /\ VALID_CREDENTIALS[username] = password

\* An add that flips membership: adding a present identity drops it.
add_toggles(au, user_id) ==
    IF user_id \in au THEN au \ {user_id} ELSE au \cup {user_id}

\* self.authenticated_users.add(user_id)
add(au, user_id) == au \cup {user_id}

\* A logout that ends every session.
remove_all(au, user_id) == {}

\* self.authenticated_users.remove(user_id)
remove(au, user_id) == au \ {user_id}

\* A password step that keeps the conversation open after a success.
receive_password_stays(w, user_id, text, delete_ok) ==
    LET password == strip(text)
        username == w.ud[user_id]
        delete   == IF delete_ok THEN "deleted" ELSE "failed"
    IN  IF username \in DOMAIN VALID_CREDENTIALS
           /\ VALID_CREDENTIALS[username] = password
        THEN Returning(Result(w.au \cup {user_id}, w.ud, LoginSuccessMsg,
                              "none", delete), PASSWORD)
        ELSE Returning(Result(w.au, w.ud, InvalidCredentialsMsg, "none",
                              delete), END)

\* A password step that tells a wrong secret from an unknown username.
receive_password_reveals(w, user_id, text, delete_ok) ==
    LET password == strip(text)
        username == w.ud[user_id]
        delete == IF delete_ok THEN "deleted" ELSE "failed"
    IN  IF verify(username, password)
        THEN Returning(Result(add(w.au, user_id), w.ud, LoginSuccessMsg,
                              "none", delete), END)
        ELSE IF username \in DOMAIN VALID_CREDENTIALS
        THEN Returning(Result(w.au, w.ud, WrongPasswordMsg, "none", delete),
                       END)
        ELSE Returning(Result(w.au, w.ud, InvalidCredentialsMsg, "none",
                              delete), END)

\* A password step without the try/except around the delete: a failed
\* delete raises out of the handler, before verification.
receive_password_delete_raises(w, user_id, text, delete_ok) ==
    LET password == strip(text)
        username == w.ud[user_id]
    IN  IF ~delete_ok
        THEN Returning(Result(w.au, w.ud, NoReply, "none", "failed"), PASSWORD)
        ELSE IF verify(username, password)
        THEN Returning(Result(add(w.au, user_id), w.ud, LoginSuccessMsg,
                              "none", "deleted"), END)
        ELSE Returning(Result(w.au, w.ud, InvalidCredentialsMsg, "none",
                              "deleted"), END)

receive_password(w, user_id, text, delete_ok) ==
    LET password == strip(text)
        username == w.ud[user_id]
        delete   == IF delete_ok THEN "deleted" ELSE "failed"
    IN  IF verify(username, password)
        THEN Returning(Result(add(w.au, user_id), w.ud, LoginSuccessMsg,
                              "none", delete), END)
        ELSE Returning(Result(w.au, w.ud, InvalidCredentialsMsg, "none",
                              delete), END)

\* A cancel that says so but leaves the attempt pending.
cancel_login_stays(w, user_id) ==
    Returning(Result(w.au, w.ud, LoginCancelledMsg, "none", "none"), PASSWORD)

cancel_login(w, user_id) ==
    Returning(Result(w.au, w.ud, LoginCancelledMsg, "none", "none"), END)

\* A logout that reports success but keeps the session.
logout_keeps(w, user_id) ==
    IF user_id \in w.au
    THEN Result(w.au, w.ud, LoggedOutMsg, "none", "none")
    ELSE Result(w.au, w.ud, NotLoggedInMsg, "none", "none")

logout(w, user_id) ==
    IF user_id \in w.au
    THEN Result(remove(w.au, user_id), w.ud, LoggedOutMsg, "none", "none")
    ELSE Result(w.au, w.ud, NotLoggedInMsg, "none", "none")

help_command(w, user_id) ==
    IF user_id \in w.au
    THEN Result(w.au, w.ud, HelpMsg, "none", "none")
    ELSE Result(w.au, w.ud, HelpLockedMsg, "none", "none")

\* A decorator that lets everybody through.
require_auth_unguarded(w, user_id, func) == func

\* The decorator: func, the result of running the decorated body, is used
\* (the body runs) only for an authenticated identity.
require_auth(w, user_id, func) ==
    IF user_id \notin w.au
    THEN Result(w.au, w.ud, AuthRequiredMsg, "none", "none")
    ELSE func

info_body(w, user_id) == Result(w.au, w.ud, InfoMsg(w.au), "info", "none")

stats_body(w, user_id) == Result(w.au, w.ud, StatsMsg(w.au), "stats", "none")

users_body(w, user_id) == Result(w.au, w.ud, UsersMsg(w.au), "users", "none")

data_body(w, user_id) == Result(w.au, w.ud, DataMsg, "data", "none")

info_command(w, user_id) == require_auth(w, user_id, info_body(w, user_id))

stats_command(w, user_id) == require_auth(w, user_id, stats_body(w, user_id))

users_command(w, user_id) == require_auth(w, user_id, users_body(w, user_id))

data_command(w, user_id) == require_auth(w, user_id, data_body(w, user_id))

unauthorized_command(w, user_id) ==
    IF user_id \notin w.au
    THEN Result(w.au, w.ud, PleaseLoginMsg, "none", "none")
    ELSE Result(w.au, w.ud, NoReply, "none", "none")

----------------------------------------------------------------------------
\* Routing: main() registers the handlers in this order, and an update is
\* handled by the first handler that accepts it.

Handled(name, r, conv) ==
    [handler |-> name, au |-> r.au, conv |-> conv, ud |-> r.ud,
     reply |-> r.reply, body |-> r.body, delete |-> r.delete]

\* No handler accepts the update: nothing runs.
Unhandled(w) ==
    [handler |-> "none", au |-> w.au, conv |-> w.conv, ud |-> w.ud,
     reply |-> NoReply, body |-> "none", delete |-> "none"]

\* The conversation handler: which of its handlers, if any, takes the update
\* in the identity's conversation state.  Entry points are tried only when
\* no conversation is in progress; otherwise the state's handlers, then the
\* fallbacks.
\* A conversation handler with allow_reentry: an entry point is also tried
\* while a conversation is in progress.
login_handler_match_reentry(state, update) ==
    IF update.command = "login" THEN "login_start"
    ELSE IF state = USERNAME /\ IsPlainText(update) THEN "receive_username"
    ELSE IF state = PASSWORD /\ IsPlainText(update) THEN "receive_password"
    ELSE IF state # END /\ update.command = "cancel" THEN "cancel_login"
    ELSE "none"

login_handler_match(state, update) ==
    IF state = END
    THEN IF update.command = "login" THEN "login_start" ELSE "none"
    ELSE IF state = USERNAME /\ IsPlainText(update) THEN "receive_username"
    ELSE IF state = PASSWORD /\ IsPlainText(update) THEN "receive_password"
    ELSE IF update.command = "cancel" THEN "cancel_login"
    ELSE "none"

\* The conversation of user_id moves to the state the login handler returned.
Moved(name, r, w, user_id) ==
    Handled(name, r, [w.conv EXCEPT ![user_id] = r.ret])

\* Runs the login handler called name.
login_handler(name, w, user_id, update, delete_ok) ==
    CASE name = "login_start" ->
             Moved(name, login_start(w, user_id), w, user_id)
      [] name = "receive_username" ->
             Moved(name, receive_username(w, user_id, update.text), w, user_id)
      [] name = "receive_password" ->
             Moved(name, receive_password(w, user_id, update.text, delete_ok),
                   w, user_id)
      [] name = "cancel_login" ->
             Moved(name, cancel_login(w, user_id), w, user_id)

\* Routing with the catch-all text handler registered before login_handler.
process_update_text_first(w, user_id, update, delete_ok) ==
    IF update.command = "start"
    THEN Handled("start", start(w, user_id), w.conv)
    ELSE IF IsPlainText(update)
    THEN Handled("unauthorized_command", unauthorized_command(w, user_id),
                 w.conv)
    ELSE IF login_handler_match(w.conv[user_id], update) # "none"
    THEN login_handler(login_handler_match(w.conv[user_id], update), w,
                       user_id, update, delete_ok)
    ELSE IF update.command = "logout"
    THEN Handled("logout", logout(w, user_id), w.conv)
    ELSE IF update.command = "help"
    THEN Handled("help_command", help_command(w, user_id), w.conv)
    ELSE IF update.command = "info"
    THEN Handled("info_command", info_command(w, user_id), w.conv)
    ELSE IF update.command = "stats"
    THEN Handled("stats_command", stats_command(w, user_id), w.conv)
    ELSE IF update.command = "users"
    THEN Handled("users_command", users_command(w, user_id), w.conv)
    ELSE IF update.command = "data"
    THEN Handled("data_command", data_command(w, user_id), w.conv)
    ELSE Unhandled(w)

process_update(w, user_id, update, delete_ok) ==
    IF update.command = "start"
    THEN Handled("start", start(w, user_id), w.conv)
    ELSE IF login_handler_match(w.conv[user_id], update) # "none"
    THEN login_handler(login_handler_match(w.conv[user_id], update), w,
                       user_id, update, delete_ok)
    ELSE IF update.command = "logout"
    THEN Handled("logout", logout(w, user_id), w.conv)
    ELSE IF update.command = "help"
    THEN Handled("help_command", help_command(w, user_id), w.conv)
    ELSE IF update.command = "info"
    THEN Handled("info_command", info_command(w, user_id), w.conv)
    ELSE IF update.command = "stats"
    THEN Handled("stats_command", stats_command(w, user_id), w.conv)
    ELSE IF update.command = "users"
    THEN Handled("users_command", users_command(w, user_id), w.conv)
    ELSE IF update.command = "data"
    THEN Handled("data_command", data_command(w, user_id), w.conv)
    ELSE IF IsPlainText(update)
    THEN Handled("unauthorized_command", unauthorized_command(w, user_id),
                 w.conv)
    ELSE Unhandled(w)

----------------------------------------------------------------------------
\* Helpers for the history variable and the properties.

\* One identity's part of the state.
Local(w, user_id) ==
    [auth |-> user_id \in w.au, conv |-> w.conv[user_id],
     ud |-> w.ud[user_id]]

\* The state in which user_id has the part l and nobody else did anything.
Alone(l, user_id) ==
    [au   |-> IF l.auth THEN {user_id} ELSE {},
     conv |-> [x \in Users |-> IF x = user_id THEN l.conv ELSE END],
     ud   |-> [x \in Users |-> IF x = user_id THEN l.ud ELSE None]]

\* The pair the password step looks up is a pair of the credential table.
IsStoredPair(username, secret) ==
    \E k \in DOMAIN VALID_CREDENTIALS :
        k = username /\ VALID_CREDENTIALS[k] = secret

----------------------------------------------------------------------------
\* The state machine.

\* Nothing has been handled yet: last names no identity (0).
Init ==
    /\ pc = "main"
    /\ token \in BOOLEAN
    /\ authenticated_users = {}
    /\ conversations = [u \in Users |-> END]
    /\ user_data = [u \in Users |-> None]
    /\ last = [user |-> 0, update |-> CommandUpdate(NoCommand),
               handler |-> "none", reply |-> NoReply, body |-> "none",
               delete |-> "none", attempt |-> None]
    /\ before = [au |-> {}, conv |-> [u \in Users |-> END],
                 ud |-> [u \in Users |-> None]]
    /\ handshake = {}
    /\ tasks = <<>>
    /\ attempt = [u \in Users |-> None]

\* A main() that polls whether or not the token is set.
Main_unchecked ==
    /\ pc = "main"
    /\ pc' = "run_polling"
    /\ UNCHANGED <<token, authenticated_users, conversations, user_data,
                   last, before, handshake, tasks, attempt>>

\* main() up to run_polling: without a token it returns at once.
Main ==
    /\ pc = "main"
    /\ pc' = IF token THEN "run_polling" ELSE "exit"
    /\ UNCHANGED <<token, authenticated_users, conversations, user_data,
                   last, before, handshake, tasks, attempt>>

\* One update from user_id is processed.
Deliver(user_id, update, delete_ok) ==
    /\ pc = "run_polling"
    /\ \E r \in {process_update(World, user_id, update, delete_ok)} :
           /\ authenticated_users' = r.au
           /\ conversations' = r.conv
           /\ user_data' = r.ud
           /\ last' = [user |-> user_id, update |-> update,
                       handler |-> r.handler, reply |-> r.reply,
                       body |-> r.body, delete |-> r.delete,
                       attempt |-> attempt[user_id]]
           /\ before' = World
           /\ attempt' =
                  [attempt EXCEPT ![user_id] =
                      IF r.handler = "receive_username"
                      THEN strip(update.text)
                      ELSE IF r.conv[user_id] = PASSWORD THEN @ ELSE None]
           /\ handshake' =
                  IF /\ r.handler = "receive_password"
                     /\ IsStoredPair(user_data[user_id], strip(update.text))
                  THEN handshake \cup {user_id}
                  ELSE IF update.command = "logout"
                  THEN handshake \ {user_id}
                  ELSE handshake
    /\ UNCHANGED <<pc, token, tasks>>

Command(user_id, c) == Deliver(user_id, CommandUpdate(c), TRUE)

Start(user_id) == Command(user_id, "start")

Login(user_id) == Command(user_id, "login")

Cancel(user_id) == Command(user_id, "cancel")

Logout(user_id) == Command(user_id, "logout")

Help(user_id) == Command(user_id, "help")

Protected(user_id, c) == Command(user_id, c)

\* A plain text; delete_ok is whether deleting the message would succeed,
\* which matters only where a delete is requested (the password step).
Text(user_id, t, delete_ok) ==
    /\ delete_ok \/ conversations[user_id] = PASSWORD
    /\ Deliver(user_id, TextUpdate(t), delete_ok)

Next ==
    \/ Main
    \/ \E u \in Users : Start(u)
    \/ \E u \in Users : Login(u)
    \/ \E u \in Users : Cancel(u)
    \/ \E u \in Users : Logout(u)
    \/ \E u \in Users : Help(u)
    \/ \E u \in Users : \E c \in ProtectedCommands : Protected(u, c)
    \/ \E u \in Users : \E t \in Texts : \E d \in BOOLEAN : Text(u, t, d)

Spec == Init /\ [][Next]_vars

TypeOK ==
    /\ pc \in {"main", "run_polling", "exit"}
    /\ token \in BOOLEAN
    /\ authenticated_users \subseteq Users
    /\ conversations \in [Users -> {END, USERNAME, PASSWORD}]
    /\ \A u \in Users : user_data[u] = None \/ user_data[u] \in {strip(t) : t \in Texts}

----------------------------------------------------------------------------
\* Logout handlers as concurrent tasks.  A handler is a coroutine: it runs
\* without interruption up to an await, where another task may run.  logout
\* tests the registry and removes the identity before its only await, the
\* sending of the reply.

\* Number of logout updates handled concurrently.
NumTasks == 2

Tasks == 1..NumTasks

\* A logout update of identity u whose handler has not started.
NewTask(u) == [user |-> u, at |-> "new", reply |-> NoReply]

\* Any registry, with the candidate username a session leaves behind, and
\* NumTasks logout updates waiting to be handled; before keeps the state the
\* tasks start in.
InitLogout ==
    /\ pc = "run_polling"
    /\ token = TRUE
    /\ authenticated_users \in SUBSET Users
    /\ conversations = [u \in Users |-> END]
    /\ user_data =
           [u \in Users |->
               IF u \in authenticated_users THEN <<"admin">> ELSE None]
    /\ last = [user |-> 0, update |-> CommandUpdate(NoCommand),
               handler |-> "none", reply |-> NoReply, body |-> "none",
               delete |-> "none", attempt |-> None]
    /\ before = World
    /\ handshake = authenticated_users
    /\ tasks \in [Tasks -> {NewTask(u) : u \in Users}]
    /\ attempt = [u \in Users |-> None]

\* A logout handler that yields between the membership test and the
\* removal; removing an identity that is no longer there raises KeyError.
LogoutRun_yields(i) ==
    \/ /\ tasks[i].at = "new"
       /\ tasks' =
              IF tasks[i].user \in authenticated_users
              THEN [tasks EXCEPT ![i].at = "remove"]
              ELSE [tasks EXCEPT ![i].at = "reply_text",
                                 ![i].reply = NotLoggedInMsg]
       /\ UNCHANGED <<pc, token, authenticated_users, conversations,
                      user_data, last, before, handshake, attempt>>
    \/ /\ tasks[i].at = "remove"
       /\ authenticated_users' = remove(authenticated_users, tasks[i].user)
       /\ tasks' =
              [tasks EXCEPT ![i].at = "reply_text",
                            ![i].reply =
                                IF tasks[i].user \in authenticated_users
                                THEN LoggedOutMsg
                                ELSE <<"KeyError">>]
       /\ handshake' = handshake \ {tasks[i].user}
       /\ UNCHANGED <<pc, token, conversations, user_data, last, before,
                      attempt>>

\* Task i runs logout from its start to the await of reply_text.
LogoutRun(i) ==
    /\ tasks[i].at = "new"
    /\ \E r \in {logout(World, tasks[i].user)} :
           /\ authenticated_users' = r.au
           /\ tasks' = [tasks EXCEPT ![i].at = "reply_text",
                                     ![i].reply = r.reply]
    /\ handshake' = handshake \ {tasks[i].user}
    /\ UNCHANGED <<pc, token, conversations, user_data, last, before,
                   attempt>>

\* The reply of task i has been sent; the handler logs and returns.
LogoutReplied(i) ==
    /\ tasks[i].at = "reply_text"
    /\ tasks' = [tasks EXCEPT ![i].at = "done"]
    /\ UNCHANGED <<pc, token, authenticated_users, conversations, user_data,
                   last, before, handshake, attempt>>

NextLogout ==
    \/ \E i \in Tasks : LogoutRun(i)
    \/ \E i \in Tasks : LogoutReplied(i)

SpecLogout == InitLogout /\ [][NextLogout]_vars

----------------------------------------------------------------------------
\* Vocabulary of the properties.  Each property relates the state the last
\* update was handled in (before) to the update (last) and the state now.

\* The last update handled was upd, sent by u.
Did(u, upd) == last.user = u /\ last.update = upd

\* The last update left u's session, login attempt and candidate username
\* as they were.
Kept(u) == Local(before, u) = Local(World, u)

\* The last update changed neither the registry, nor any login attempt, nor
\* any candidate username.
AllKept == before = World

\* An update of somebody else leaves u's part of the state alone.
OthersLeaveAlone(u) == last.user # u => Kept(u)

\* /login from an idle, unauthenticated identity opens an attempt that awaits
\* the username.
LoginOpensAttempt(u) ==
    (/\ Did(u, CommandUpdate("login"))
     /\ before.conv[u] = END
     /\ u \notin before.au)
    => /\ conversations[u] = USERNAME
       /\ u \notin authenticated_users

\* A plain text in the username step is kept, stripped, as the candidate
\* username and the attempt awaits the password.
UsernameKept(u) ==
    \A t \in Texts :
        (/\ Did(u, TextUpdate(t))
         /\ before.conv[u] = USERNAME
         /\ u \notin before.au)
        => /\ conversations[u] = PASSWORD
           /\ user_data[u] = strip(t)
           /\ u \notin authenticated_users

\* A plain text from an identity without an attempt is no login step and
\* changes nothing.
StrayTextIgnored(u) ==
    \A t \in Texts :
        (Did(u, TextUpdate(t)) /\ before.conv[u] = END)
        => /\ last.handler \notin {"receive_username", "receive_password"}
           /\ AllKept

\* The reply names the username or the password.
NamesCredentialPart(reply) ==
    \E i \in 1..Len(reply) :
        reply[i] \in {"username", "Username", "username:", "Username:",
                      "username!", "password", "Password", "password:",
                      "Password:", "password!"}

----------------------------------------------------------------------------
\* C1: a protected command (info, stats, users, data) from an identity that
\* is not in the session registry is answered with the 'authentication
\* required' denial, runs no protected body, and leaves the registry and
\* every login attempt (state and candidate username) unchanged.
C1_UnauthenticatedDenied ==
    \A u \in Users : \A c \in ProtectedCommands :
        (Did(u, CommandUpdate(c)) /\ u \notin before.au)
        => /\ last.reply = AuthRequiredMsg
           /\ last.body = "none"
           /\ AllKept

\* A denial was sent to an identity in the middle of a login, while another
\* identity holds a session.
C1_Witness ==
    /\ last.update.command \in ProtectedCommands
    /\ last.reply = AuthRequiredMsg
    /\ conversations[last.user] = PASSWORD
    /\ authenticated_users # {}

\* C2: an identity is in the session registry exactly when its last
\* password step verified a stored (username, secret) pair and it has not
\* sent logout since; so a protected body only runs for an identity that
\* completed the handshake, and a session is removed only by that
\* identity's own logout.
C2_SessionIffHandshake ==
    /\ authenticated_users = handshake
    /\ last.body # "none" => last.user \in handshake
    /\ \A u \in Users :
           (u \in before.au /\ u \notin authenticated_users)
           => Did(u, CommandUpdate("logout"))

\* An identity with a session has just logged out and lost it, while another
\* identity keeps its session.
C2_Witness ==
    /\ last.update = CommandUpdate("logout")
    /\ last.reply = LoggedOutMsg
    /\ last.user \notin authenticated_users
    /\ authenticated_users # {}

\* C3: login round-trip.  From idle and unauthenticated, /login opens the
\* attempt, the text of a stored username is kept as the candidate, and the
\* text of its stored secret puts the identity in the registry with the
\* attempt back at idle; updates of other identities in between change
\* nothing of this; and a further plain text without a new /login is no
\* username or password step and changes neither registry nor attempts.
C3_LoginRoundTrip ==
    \A u \in Users :
        /\ LoginOpensAttempt(u)
        /\ UsernameKept(u)
        /\ \A k \in DOMAIN VALID_CREDENTIALS :
               (/\ Did(u, TextUpdate(VALID_CREDENTIALS[k]))
                /\ before.conv[u] = PASSWORD
                /\ before.ud[u] = k)
               => /\ u \in authenticated_users
                  /\ conversations[u] = END
                  /\ last.reply = LoginSuccessMsg
        /\ StrayTextIgnored(u)
        /\ OthersLeaveAlone(u)

\* After a completed login, the identity sent a further plain text: it is
\* in the registry, idle, and the text went to the fallback.
C3_Witness ==
    /\ last.handler = "unauthorized_command"
    /\ last.user \in authenticated_users
    /\ conversations[last.user] = END
    /\ user_data[last.user] = <<"admin">>

\* C4 as stated: whenever the candidate username and the password text as
\* sent are not a stored pair, the password step leaves the identity out of
\* the registry, idle, with a rejection naming neither part.
C4_AsStated ==
    \A u \in Users : \A p \in Texts :
        (/\ Did(u, TextUpdate(p))
         /\ before.conv[u] = PASSWORD
         /\ u \notin before.au
         /\ ~IsStoredPair(before.ud[u], p))
        => /\ u \notin authenticated_users
           /\ conversations[u] = END
           /\ ~NamesCredentialPart(last.reply)

\* C4, amended: invalid-credential round-trip.  From idle and
\* unauthenticated, /login then a text u then a text p, where u and p
\* stripped of surrounding whitespace are not a stored pair, leaves the
\* identity out of the registry with the attempt discarded, and the
\* rejection names neither the username nor the password.
C4_InvalidRoundTrip ==
    \A u \in Users :
        /\ LoginOpensAttempt(u)
        /\ UsernameKept(u)
        /\ \A p \in Texts :
               (/\ Did(u, TextUpdate(p))
                /\ before.conv[u] = PASSWORD
                /\ u \notin before.au
                /\ ~IsStoredPair(before.ud[u], strip(p)))
               => /\ authenticated_users = before.au
                  /\ u \notin authenticated_users
                  /\ conversations[u] = END
                  /\ last.reply = InvalidCredentialsMsg
                  /\ ~NamesCredentialPart(last.reply)
        /\ OthersLeaveAlone(u)

\* A known username with another user's secret has just been rejected.
C4_Witness ==
    /\ last.handler = "receive_password"
    /\ user_data[last.user] = <<"admin">>
    /\ last.update = TextUpdate(<<"pass123">>)
    /\ last.user \notin authenticated_users
    /\ conversations[last.user] = END
    /\ last.reply = InvalidCredentialsMsg

\* C5: cancel mid-flow.  /cancel while awaiting the username or the password
\* discards the attempt and leaves the identity unauthenticated; a plain
\* text that follows, even the correct password, finds no attempt, is no
\* password step and does not add the identity to the registry.
C5_CancelMidFlow ==
    \A u \in Users :
        /\ (/\ Did(u, CommandUpdate("cancel"))
            /\ before.conv[u] \in {USERNAME, PASSWORD}
            /\ u \notin before.au)
           => /\ last.handler = "cancel_login"
              /\ last.reply = LoginCancelledMsg
              /\ conversations[u] = END
              /\ u \notin authenticated_users
        /\ \A t \in Texts :
               (/\ Did(u, TextUpdate(t))
                /\ before.conv[u] = END
                /\ u \notin before.au)
               => /\ last.handler = "unauthorized_command"
                  /\ u \notin authenticated_users
        /\ StrayTextIgnored(u)
        /\ OthersLeaveAlone(u)

\* An attempt whose candidate is a stored username has just been cancelled:
\* the identity is idle and unauthenticated, and the matching secret, if
\* sent now, would be a stray text.
C5_Witness ==
    /\ last.handler = "cancel_login"
    /\ last.reply = LoginCancelledMsg
    /\ before.conv[last.user] = PASSWORD
    /\ user_data[last.user] = <<"admin">>
    /\ last.user \notin authenticated_users
    /\ conversations[last.user] = END

\* C6: a successful password step puts the identity in the registry; a
\* logout of an identity in the registry removes it (and nobody else) and
\* reports 'logged out'; a logout of an identity not in the registry changes
\* nothing and reports 'not logged in'; and since an identity is out of the
\* registry after its logout, a second logout in a row is of that kind.
C6_GrantRevoke ==
    \A u \in Users :
        /\ (/\ last.user = u
            /\ last.handler = "receive_password"
            /\ last.reply = LoginSuccessMsg)
           => u \in authenticated_users
        /\ (Did(u, CommandUpdate("logout")) /\ u \in before.au)
           => /\ authenticated_users = before.au \ {u}
              /\ last.reply = LoggedOutMsg
        /\ (Did(u, CommandUpdate("logout")) /\ u \notin before.au)
           => /\ authenticated_users = before.au
              /\ last.reply = NotLoggedInMsg
        /\ Did(u, CommandUpdate("logout")) => u \notin authenticated_users

\* A logout has just removed a session while another identity keeps its own.
C6_Witness ==
    /\ last.update = CommandUpdate("logout")
    /\ last.handler = "logout"
    /\ last.reply = LoggedOutMsg
    /\ last.user \in before.au
    /\ last.user \notin authenticated_users
    /\ \E v \in Users : v \in authenticated_users

C8_IdentityIndependence ==
    \A v \in Users :
        last.user = v
        => /\ \A u \in Users \ {v} : Kept(u)
           /\ Local(World, v)
              = Local(process_update(Alone(Local(before, v), v), v,
                                     last.update, last.delete # "failed"),
                      v)

\* Two identities are both awaiting the password, with different candidate
\* usernames, their updates having interleaved.
C8_Witness ==
    /\ conversations[1] = PASSWORD
    /\ conversations[2] = PASSWORD
    /\ user_data[1] = <<"admin">>
    /\ user_data[2] = <<"pass123">>
    /\ last.user = 2
    /\ before.conv[1] = PASSWORD

\* C9: the password step succeeds iff the candidate username is a key of the
\* credential table and the stored secret equals the candidate secret
\* exactly; an unknown username fails with every secret; and checking
\* changes no state: a failure leaves registry and scratch data as they
\* were, a success only adds the identity.
C9_VerifyExact ==
    \A u \in Users : \A p \in Texts :
        (Did(u, TextUpdate(p)) /\ before.conv[u] = PASSWORD)
        => /\ last.handler = "receive_password"
           /\ last.reply \in {LoginSuccessMsg, InvalidCredentialsMsg}
           /\ (last.reply = LoginSuccessMsg)
                  <=> IsStoredPair(before.ud[u], strip(p))
           /\ before.ud[u] \notin DOMAIN VALID_CREDENTIALS
                  => last.reply = InvalidCredentialsMsg
           /\ user_data = before.ud
           /\ authenticated_users =
                  IF IsStoredPair(before.ud[u], strip(p))
                  THEN before.au \cup {u}
                  ELSE before.au

\* A known username with the stored secret of another username has been
\* rejected.
C9_Witness ==
    /\ last.handler = "receive_password"
    /\ last.reply = InvalidCredentialsMsg
    /\ user_data[last.user] \in DOMAIN VALID_CREDENTIALS
    /\ \E k \in DOMAIN VALID_CREDENTIALS :
           VALID_CREDENTIALS[k] = strip(last.update.text)

\* C10: /login from an identity that is already authenticated is answered
\* 'already logged in', opens no attempt, and leaves the session in place.
C10_AlreadyLoggedIn ==
    \A u \in Users :
        (Did(u, CommandUpdate("login")) /\ u \in before.au)
        => /\ last.reply = AlreadyLoggedInMsg
           /\ conversations[u] = END
           /\ AllKept

\* An authenticated identity has just sent /login.
C10_Witness ==
    /\ last.update = CommandUpdate("login")
    /\ last.user \in before.au
    /\ last.user \in authenticated_users
    /\ last.reply = AlreadyLoggedInMsg
    /\ conversations[last.user] = END

----------------------------------------------------------------------------
----------------------------------------------------------------------------
\* C12: a plain text is handled by exactly one handler: the pending login
\* step if the identity has an attempt in progress (and then the 'please
\* login' reply is not sent); otherwise the catch-all handler, which answers
\* 'please login' to an unauthenticated identity and, for an authenticated
\* one, sends nothing; outside an attempt the text changes no state.
C12_TextRouting ==
    \A u \in Users : \A t \in Texts :
        Did(u, TextUpdate(t))
        => CASE before.conv[u] = USERNAME ->
                    /\ last.handler = "receive_username"
                    /\ last.reply = EnterPasswordMsg(strip(t))
                    /\ last.reply # PleaseLoginMsg
             [] before.conv[u] = PASSWORD ->
                    /\ last.handler = "receive_password"
                    /\ last.reply \in {LoginSuccessMsg, InvalidCredentialsMsg}
                    /\ last.reply # PleaseLoginMsg
             [] before.conv[u] = END /\ u \notin before.au ->
                    /\ last.handler = "unauthorized_command"
                    /\ last.reply = PleaseLoginMsg
                    /\ AllKept
             [] before.conv[u] = END /\ u \in before.au ->
                    /\ last.handler = "unauthorized_command"
                    /\ last.reply = NoReply
                    /\ AllKept

\* An identity in the middle of an attempt, and not authenticated, sent a
\* plain text and got the password prompt, not 'please login'.
C12_Witness ==
    /\ IsPlainText(last.update)
    /\ last.user \in Users
    /\ before.conv[last.user] = USERNAME
    /\ last.user \notin before.au
    /\ last.handler = "receive_username"
    /\ last.reply # PleaseLoginMsg

----------------------------------------------------------------------------
\* C13: without a token main() returns before run_polling: the process never
\* polls, no update is ever handled and the registry stays empty.
C13_NoTokenNoLoop ==
    ~token
    => /\ pc \in {"main", "exit"}
       /\ last.user \notin Users
       /\ last.handler = "none"
       /\ last.reply = NoReply
       /\ authenticated_users = {}
       /\ \A u \in Users : conversations[u] = END /\ user_data[u] = None

\* main() has returned for want of a token.
C13_Witness ==
    /\ ~token
    /\ pc = "exit"
    /\ authenticated_users = {}

----------------------------------------------------------------------------
\* C14: in the password step the outcome of deleting the message does not
\* matter: handled with the delete succeeding and with the delete failing,
\* the same text in the same state gets the same reply (success or
\* rejection, never an error), the same registry, and the attempt ends; the
\* step that was taken is one of the two.
C14_DeleteOutcomeIgnored ==
    \A u \in Users : \A p \in Texts :
        (Did(u, TextUpdate(p)) /\ before.conv[u] = PASSWORD)
        => \E ok \in {process_update(before, u, TextUpdate(p), TRUE)} :
           \E ko \in {process_update(before, u, TextUpdate(p), FALSE)} :
               /\ ok.delete = "deleted"
               /\ ko.delete = "failed"
               /\ ko.handler = "receive_password"
               /\ ko.reply = ok.reply
               /\ ko.reply \in {LoginSuccessMsg, InvalidCredentialsMsg}
               /\ ko.reply = LoginSuccessMsg
                      <=> IsStoredPair(before.ud[u], strip(p))
               /\ ko.au = ok.au
               /\ ko.conv = ok.conv
               /\ ko.ud = ok.ud
               /\ ko.conv[u] = END
               /\ last.delete \in {"deleted", "failed"}
               /\ last.reply = ko.reply
               /\ World = [au |-> ko.au, conv |-> ko.conv, ud |-> ko.ud]

\* A password step whose delete failed has logged the identity in.
C14_Witness ==
    /\ last.handler = "receive_password"
    /\ last.delete = "failed"
    /\ last.reply = LoginSuccessMsg
    /\ last.user \in authenticated_users
    /\ conversations[last.user] = END

----------------------------------------------------------------------------
\* C15: a failed login does not tell which part was wrong.  Every username
\* step is answered alike, whether or not the table knows the username; and
\* when a password step is rejected, the same identity in the same state with
\* any other failing pair (an unknown username, or a known username with a
\* wrong secret) would have got the same reply and the same state: not
\* authenticated, no attempt in progress.
C15_NoCredentialOracle ==
    \A u \in Users : \A t \in Texts :
        /\ (Did(u, TextUpdate(t)) /\ before.conv[u] = USERNAME)
           => /\ last.reply = EnterPasswordMsg(strip(t))
              /\ conversations[u] = PASSWORD
        /\ (/\ Did(u, TextUpdate(t))
            /\ before.conv[u] = PASSWORD
            /\ ~IsStoredPair(before.ud[u], strip(t)))
           => /\ last.reply = InvalidCredentialsMsg
              /\ u \notin authenticated_users
              /\ conversations[u] = END
              /\ \A n \in Texts : \A q \in Texts : \A d \in BOOLEAN :
                     ~IsStoredPair(strip(n), strip(q))
                     => \E r \in {process_update(
                                      [before EXCEPT !.ud[u] = strip(n)],
                                      u, TextUpdate(q), d)} :
                            /\ r.reply = last.reply
                            /\ r.au = authenticated_users
                            /\ r.conv = conversations

\* A login with a username the table does not know has been rejected, and a
\* known username with the same secret would have been rejected too.
C15_Witness ==
    /\ last.handler = "receive_password"
    /\ last.reply = InvalidCredentialsMsg
    /\ before.ud[last.user] \notin DOMAIN VALID_CREDENTIALS
    /\ \E k \in DOMAIN VALID_CREDENTIALS :
           ~IsStoredPair(k, strip(last.update.text))
    /\ last.user \notin authenticated_users
    /\ conversations[last.user] = END

----------------------------------------------------------------------------
\* C16: logout updates of one identity handled concurrently behave as if
\* handled one after the other.  For an identity that held a session when the
\* tasks started: as soon as one of its logout handlers has run, the identity
\* is outside the registry, exactly one handler has answered 'logged out' and
\* every other one 'not logged in'; no handler ends in an error.  For an
\* identity without a session every handler answers 'not logged in'.
C16_ConcurrentLogout ==
    \A u \in Users :
        \E ran \in {{i \in Tasks : /\ tasks[i].user = u
                                  /\ tasks[i].at \in {"reply_text", "done"}}} :
            /\ \A i \in ran :
                   tasks[i].reply \in {LoggedOutMsg, NotLoggedInMsg}
            /\ Cardinality({i \in ran : tasks[i].reply = LoggedOutMsg}) =
                   IF u \in before.au /\ ran # {} THEN 1 ELSE 0
            /\ u \in authenticated_users <=> (u \in before.au /\ ran = {})

\* Two logout handlers of one identity that held a session are both waiting
\* for their reply to be sent: one answers 'logged out', the other 'not
\* logged in'.
C16_Witness ==
    \E i \in Tasks : \E j \in Tasks :
        /\ i # j
        /\ tasks[i].user = tasks[j].user
        /\ tasks[i].user \in before.au
        /\ tasks[i].at = "reply_text"
        /\ tasks[j].at = "reply_text"
        /\ tasks[i].reply = LoggedOutMsg
        /\ tasks[j].reply = NotLoggedInMsg
        /\ tasks[i].user \notin authenticated_users

----------------------------------------------------------------------------
----------------------------------------------------------------------------
\* C18: a pending attempt of an identity changes only on that identity's own
\* plain text or /cancel.  /start, /help, /logout and the protected commands
\* sent by the identity in the middle of its attempt, and every update of
\* another identity, leave the attempt state and the candidate username as
\* they were; no step of the program other than the handling of an update
\* ends an attempt, so without an update from the identity the attempt stays
\* pending.
C18_AttemptFrame ==
    \A u \in Users :
        before.conv[u] # END
        => /\ (\/ last.user # u
               \/ last.update.command \in
                      {"start", "help", "logout"} \cup ProtectedCommands)
              => /\ conversations[u] = before.conv[u]
                 /\ user_data[u] = before.ud[u]
           /\ (\/ conversations[u] # before.conv[u]
               \/ user_data[u] # before.ud[u])
              => /\ last.user = u
                 /\ IsPlainText(last.update) \/ last.update.command = "cancel"

\* /start was sent in the middle of an attempt that awaits the password, and
\* the attempt still awaits the password with its candidate username.
C18_Witness ==
    /\ last.update = CommandUpdate("start")
    /\ before.conv[last.user] = PASSWORD
    /\ conversations[last.user] = PASSWORD
    /\ user_data[last.user] = before.ud[last.user]
    /\ user_data[last.user] # None

----------------------------------------------------------------------------
\* C19: the username step validates nothing.  Any plain text sent while the
\* attempt awaits the username, in the credential table or not, is stored
\* stripped as the candidate username, is answered with the password prompt
\* and moves the attempt to the password step; an attempt that awaits the
\* username ends only by the identity's /cancel.
C19_UsernameNotValidated ==
    \A u \in Users :
        /\ \A t \in Texts :
               (Did(u, TextUpdate(t)) /\ before.conv[u] = USERNAME)
               => /\ last.handler = "receive_username"
                  /\ user_data[u] = strip(t)
                  /\ conversations[u] = PASSWORD
                  /\ last.reply = EnterPasswordMsg(strip(t))
                  /\ authenticated_users = before.au
                  /\ \A x \in Users \ {u} : Kept(x)
        /\ (before.conv[u] = USERNAME /\ conversations[u] = END)
           => Did(u, CommandUpdate("cancel"))

\* A username that the table does not know, sent with nothing to strip, has
\* been stored and the attempt awaits the password.
C19_Witness ==
    /\ last.handler = "receive_username"
    /\ before.conv[last.user] = USERNAME
    /\ strip(last.update.text) \notin DOMAIN VALID_CREDENTIALS
    /\ user_data[last.user] = last.update.text
    /\ conversations[last.user] = PASSWORD

----------------------------------------------------------------------------
============================================================================
